---------------------------- MODULE Spec2Model ----------------------------
(***************************************************************************)
(* A model of src/vsg/state/ShaderModule.cpp of VulkanSceneGraph:          *)
(*   - vsg::insertIncludes, the scanner that splices #include and          *)
(*     #pragma include files into a shader source (per iteration of its    *)
(*     while loop, a step that scans up to the filename and a step that    *)
(*     leaves the loop, continues or splices);                             *)
(*   - ShaderModule::compile, the per-device lazy creation of the Vulkan   *)
(*     shader module.                                                      *)
(* A std::string is a TLA+ string, positions are 0-based as in C++, and    *)
(* std::string::size_type is an unsigned integer of SizeBits bits.         *)
(***************************************************************************)
EXTENDS Integers, Sequences, FiniteSets, TLC

VARIABLES
    lines,            \* the lines the source argument is made of (input)
    term,             \* the line terminator the source argument uses (input)
    source,           \* insertIncludes' argument `source`
    code,             \* insertIncludes' local `code`
    pos,              \* insertIncludes' local `pos`
    pragma_pos,       \* insertIncludes' local `pragma_pos`
    include_pos,      \* insertIncludes' local `include_pos`
    pc,               \* "loop": at the while condition; "body": the iteration
                      \* is scanned; "done": returned
    loads,            \* the vsg::read_cast calls made so far, in order
    iter,             \* the locals of the iteration scanned last
    _implementation,  \* ShaderModule::_implementation, per deviceID
    created,          \* calls of vkCreateShaderModule so far, per deviceID
    handles,          \* the number of VkShaderModule handles created so far
    calls,            \* the ShaderModule::compile calls so far, with how each ended
    threads,          \* where each thread is in its ShaderModule::compile call
    version,          \* the version of the Output and of the Input
    saved,            \* the ShaderModule that ShaderModule::write is called on
    output,           \* the properties written to the Output so far
    made,             \* the ShaderCompileSettings Input::readObject creates, before its read
    prior,            \* the ShaderModule that reads, before ShaderModule::read
    object,           \* the ShaderModule that reads
    input,            \* the Input: the properties not read yet, and whether every read matched
    ioPc              \* "start", "written" (write returned), "read" (read returned)

incVars == <<lines, term, source, code, pos, pragma_pos, include_pos, pc, loads, iter>>
devVars == <<_implementation, created, handles, calls, threads>>
ioVars == <<version, saved, output, made, prior, object, input, ioPc>>
vars == <<lines, term, source, code, pos, pragma_pos, include_pos, pc, loads, iter,
          _implementation, created, handles, calls, threads,
          version, saved, output, made, prior, object, input, ioPc>>

-----------------------------------------------------------------------------
(* Bounds of the model.                                                    *)

\* the source argument has at most MaxLines lines
MaxLines == 3
\* at most MaxCompiles calls of ShaderModule::compile are made
MaxCompiles == 4
\* device identifiers are 0 .. MaxDevice
MaxDevice == 2
\* MaxThreads threads call ShaderModule::compile
MaxThreads == 2
\* ShaderModule::code holds up to MaxCode words
MaxCode == 2
\* ShaderCompileSettings::defines holds up to MaxDefines strings
MaxDefines == 2

-----------------------------------------------------------------------------
(* std::string                                                             *)

\* the width of std::string::size_type in the model (64 on the real targets;
\* every string of the model is far shorter than 2^SizeBits)
SizeBits == 30
SizeMod == 2 ^ SizeBits
npos == SizeMod - 1

\* unsigned subtraction of size_type
USub(a, b) == (a - b + SizeMod) % SizeMod

\* s[i]; s[s.size()] is the terminating NUL, written "" here
At(s, i) == IF i < Len(s) THEN SubSeq(s, i + 1, i + 1) ELSE ""

\* s.substr(p, n), also std::string(s, p, n): at most n characters from p
Substr(s, p, n) ==
    LET m == IF n < Len(s) - p THEN n ELSE Len(s) - p
    IN  SubSeq(s, p + 1, p + m)

RECURSIVE FindFrom(_, _, _)
\* the first position i >= p where t occurs in s, npos when there is none
FindFrom(s, t, i) ==
    IF i + Len(t) > Len(s) THEN npos
    ELSE IF SubSeq(s, i + 1, i + Len(t)) = t THEN i
    ELSE FindFrom(s, t, i + 1)

\* s.find(t, p)
Find(s, t, p) == FindFrom(s, t, p)

RECURSIVE FindChar(_, _, _, _)
\* the first position i >= p where (s[i] \in chars) = member, npos when none
FindChar(s, chars, member, i) ==
    IF i >= Len(s) THEN npos
    ELSE IF (At(s, i) \in chars) = member THEN i
    ELSE FindChar(s, chars, member, i + 1)

\* s.find_first_of(chars, p)
FindFirstOf(s, chars, p) == FindChar(s, chars, TRUE, p)

\* s.find_first_not_of(chars, p)
FindFirstNotOf(s, chars, p) == FindChar(s, chars, FALSE, p)

\* s.compare(p, n, t) != 0
CompareDiffers(s, p, n, t) == Substr(s, p, n) # t

\* s.erase(p, n)
Erase(s, p, n) == SubSeq(s, 1, p) \o SubSeq(s, p + Len(Substr(s, p, n)) + 1, Len(s))

\* s.insert(p, t)
Insert(s, p, t) == SubSeq(s, 1, p) \o t \o SubSeq(s, p + 1, Len(s))

-----------------------------------------------------------------------------
(* The inputs of insertIncludes: a source of up to MaxLines lines, and the *)
(* files vsg::read_cast finds.                                             *)

Quote == "\""

Line(pre, token, ws1, arg, ws2) ==
    [pre |-> pre, token |-> token, ws1 |-> ws1, arg |-> arg, ws2 |-> ws2]

\* the text of a line, without its terminator
Render(l) == l.pre \o l.token \o l.ws1 \o l.arg \o l.ws2

\* lines with a well-formed directive
IncludeQuotedA   == Line("", "#include", " ", Quote \o "a.glsl" \o Quote, "")
IncludeBareB     == Line("", "#include", " ", "b.glsl", "")
IncludeSpacedB   == Line("x; ", "#include", "\t ", Quote \o "b.glsl" \o Quote, " \t")
PragmaBareB      == Line("", "#pragma include", " ", "b.glsl", "")
PragmaQuotedB    == Line("", "#pragma\t include", "", Quote \o "b.glsl" \o Quote, " ")
\* lines with a malformed or empty filename
IncludeOpenA     == Line("", "#include", " ", Quote \o "a.glsl", "")
IncludeLoneQuote == Line("", "#include", " ", Quote, "")
IncludeEmpty     == Line("", "#include", "", "", " \t")
PragmaEmpty      == Line("", "#pragma include", "", "", " ")
\* lines without an include directive
PragmaOther      == Line("", "#pragma", " ", "foo", "")
PragmaAlone      == Line("", "#pragma", "", "", " ")
Statement        == Line("void main(){}", "", "", "", "")
Blank            == Line("", "", "", "", "")

LineSet ==
    { IncludeQuotedA, IncludeBareB, IncludeSpacedB, PragmaBareB, PragmaQuotedB,
      IncludeOpenA, IncludeLoneQuote, IncludeEmpty, PragmaEmpty,
      PragmaOther, PragmaAlone, Statement, Blank }

Terminators == {"\n", "\r\n"}

RECURSIVE Join(_, _)
\* the lines of ls, each but the last followed by the terminator t
Join(ls, t) ==
    IF Len(ls) = 0 THEN ""
    ELSE IF Len(ls) = 1 THEN Render(ls[1])
    ELSE Render(ls[1]) \o t \o Join(Tail(ls), t)

Sources == UNION {[1 .. n -> LineSet] : n \in 1 .. MaxLines}

\* what vsg::read_cast<ShaderModule>(filename, options) may return: a null
\* pointer, or the ShaderModule of the file, whose source is the file's text
NotFound == [found |-> FALSE, source |-> ""]
FileText(filename) ==
    IF filename = "b.glsl" THEN "#include " \o Quote \o "a.glsl" \o Quote \o "\n"
    ELSE "F;\n"
ReadCast(filename) == {NotFound, [found |-> TRUE, source |-> FileText(filename)]}

-----------------------------------------------------------------------------
(* vsg::insertIncludes: the locals of one iteration of the while loop,     *)
(* computed as the code computes them from code, pos, pragma_pos and       *)
(* include_pos at the loop condition.                                      *)

startOfIncludeMarker == "// Start of include code : "
endOfIncludeMarker == "// End of include code : "
failedLoadMarker == "// Failed to load include code : "
\* the build for neither __APPLE__ nor _WIN32
endOfLine == "\n"

Blanks == {" ", "\t"}
LineEnds == {"\n", "\r"}

\* pos = (pragma_pos != npos) ? pragma_pos : include_pos
ChosenPos(pp, ip) == IF pp # npos THEN pp ELSE ip

\* (mutant) the test for "include" inverted: == 0 for != 0
NotIncludePragmaInverted(c, p) == ~CompareDiffers(c, p, 7, "include")

\* code.compare(pos, 7, "include") != 0
NotIncludePragma(c, p) == CompareDiffers(c, p, 7, "include")

\* num_characters as first computed
SpanLength(c, p, eol) == IF eol = npos THEN USub(Len(c), p) ELSE USub(eol, p)

\* (mutant) trailing white space is not pruned
PrunedNot(c, p, n) == n

RECURSIVE Pruned(_, _, _)
\* num_characters after the loop that prunes trailing white space
Pruned(c, p, n) ==
    IF n > 0 /\ At(c, p + n - 1) \in Blanks THEN Pruned(c, p, n - 1) ELSE n

\* (mutant) two characters are stripped whether the closing quote is there or not
UnquotedLengthTwo(c, p, n) == IF At(c, p) = Quote THEN USub(n, 2) ELSE n

\* the quoted filename: num_characters and pos after the if (code[pos] == '\"')
UnquotedLength(c, p, n) ==
    IF At(c, p) = Quote
    THEN IF At(c, p + n - 1) # Quote THEN USub(n, 1) ELSE USub(n, 2)
    ELSE n
UnquotedPos(c, p) == IF At(c, p) = Quote THEN p + 1 ELSE p

\* std::string filename(code, pos, num_characters)
Filename(c, p, n) == Substr(c, UnquotedPos(c, p), UnquotedLength(c, p, Pruned(c, p, n)))

\* The loop condition and the body up to the filename, from the values of
\* code, pos, pragma_pos and include_pos at the loop condition.  The
\* condition assigns pragma_pos, and include_pos only when no #pragma was
\* found (the || does not evaluate its right operand otherwise).  kind says
\* how the iteration goes on:
\*   "exit"           the loop condition is false
\*   "breakPragma"    break: only blanks follow "#pragma" in the string
\*   "skip"           continue: a #pragma that is not #pragma include
\*   "breakFilename"  break: only blanks follow the directive in the string
\*   "empty"          continue: num_characters == 0
\*   "resolve"        the directive has a filename
Scanned(c, p, pp0, ip0) ==
    LET pp == IF p = npos THEN pp0 ELSE Find(c, "#pragma", p)
        ip == IF p = npos \/ pp # npos THEN ip0 ELSE Find(c, "#include", p)
        enters == p # npos /\ (pp # npos \/ ip # npos)
        start == ChosenPos(pp, ip)
        eol == FindFirstOf(c, LineEnds, start)
        isPragma == pp # npos
        afterPragma == FindFirstNotOf(c, Blanks, start + 7)
        fpos == IF isPragma THEN FindFirstNotOf(c, Blanks, afterPragma + 7)
                ELSE FindFirstNotOf(c, Blanks, start + 8)
        kind == IF ~enters THEN "exit"
                ELSE IF isPragma /\ afterPragma = npos THEN "breakPragma"
                ELSE IF isPragma /\ NotIncludePragma(c, afterPragma) THEN "skip"
                ELSE IF fpos = npos THEN "breakFilename"
                ELSE IF SpanLength(c, fpos, eol) = 0 THEN "empty"
                ELSE "resolve"
    IN  [kind |-> kind,
         pragma_pos |-> pp,
         include_pos |-> ip,
         pragma |-> enters /\ isPragma,
         start_of_pragma_line |-> IF enters THEN start ELSE 0,
         end_of_line |-> IF enters THEN eol ELSE 0,
         pos |-> CASE kind = "exit" -> p
                   [] kind = "skip" -> afterPragma
                   [] kind = "empty" -> fpos
                   [] kind = "resolve" -> UnquotedPos(c, fpos)
                   [] OTHER -> npos,
         filename |-> IF kind = "resolve"
                      THEN Filename(c, fpos, SpanLength(c, fpos, eol)) ELSE "",
         from |-> p]

\* an erase that takes the line end with the directive
ErasedWithLineEnd(c, start, eol) ==
    Erase(c, start, IF eol = npos THEN USub(Len(c), start) ELSE USub(eol + 1, start))

\* code.erase(start_of_pragma_line, ...): the directive up to its line end
ErasedLine(c, start, eol) ==
    Erase(c, start, IF eol = npos THEN USub(Len(c), start) ELSE USub(eol, start))

\* (mutant) the test of includedSource inverted
SplicedInverted(name, included) ==
    IF ~included.found
    THEN startOfIncludeMarker \o name \o endOfLine
         \o included.source
         \o endOfIncludeMarker \o name \o endOfLine
    ELSE failedLoadMarker \o name \o endOfLine

\* what is inserted at the erased directive
Spliced(name, included) ==
    IF included.found
    THEN startOfIncludeMarker \o name \o endOfLine
         \o included.source
         \o endOfIncludeMarker \o name \o endOfLine
    ELSE failedLoadMarker \o name \o endOfLine

-----------------------------------------------------------------------------
(* vsg::insertIncludes: the state machine.  One step is one evaluation of  *)
(* the loop condition and, when it holds, one run of the loop body.        *)

NoIteration ==
    [kind |-> "none", pragma_pos |-> 0, include_pos |-> 0, pragma |-> FALSE,
     start_of_pragma_line |-> 0, end_of_line |-> 0, pos |-> 0, filename |-> "",
     from |-> 0]

IncInit(ls, t) ==
    /\ lines = ls
    /\ term = t
    /\ source = Join(ls, t)
    /\ code = source
    /\ pos = 0
    /\ pragma_pos = 0
    /\ include_pos = 0
    /\ pc = "loop"
    /\ loads = <<>>
    /\ iter = NoIteration

\* the loop condition and the body up to the filename
ScanDirective ==
    /\ pc = "loop"
    /\ iter' = Scanned(code, pos, pragma_pos, include_pos)
    /\ pragma_pos' = iter'.pragma_pos
    /\ include_pos' = iter'.include_pos
    /\ pos' = iter'.pos
    /\ pc' = "body"
    /\ UNCHANGED <<lines, term, source, code, loads, devVars, ioVars>>

\* the while condition was false: return code
LoopExit ==
    /\ pc = "body"
    /\ iter.kind = "exit"
    /\ pc' = "done"
    /\ UNCHANGED <<lines, term, source, code, pos, pragma_pos, include_pos, loads,
                   iter, devVars, ioVars>>

\* "#pragma" with only blanks up to the end of the string: break
BreakAtPragma ==
    /\ pc = "body"
    /\ iter.kind = "breakPragma"
    /\ pc' = "done"
    /\ UNCHANGED <<lines, term, source, code, pos, pragma_pos, include_pos, loads,
                   iter, devVars, ioVars>>

\* (mutant) continue without pos = end_of_line
SkipPragmaStay ==
    /\ pc = "body"
    /\ iter.kind = "skip"
    /\ pc' = "loop"
    /\ UNCHANGED <<lines, term, source, code, pos, pragma_pos, include_pos, loads,
                   iter, devVars, ioVars>>

\* a #pragma that is not "#pragma include": pos = end_of_line; continue
SkipPragma ==
    /\ pc = "body"
    /\ iter.kind = "skip"
    /\ pos' = iter.end_of_line
    /\ pc' = "loop"
    /\ UNCHANGED <<lines, term, source, code, pragma_pos, include_pos, loads, iter,
                   devVars, ioVars>>

\* a directive with only blanks up to the end of the string: break
BreakAtFilename ==
    /\ pc = "body"
    /\ iter.kind = "breakFilename"
    /\ pc' = "done"
    /\ UNCHANGED <<lines, term, source, code, pos, pragma_pos, include_pos, loads,
                   iter, devVars, ioVars>>

\* a continue that puts the cursor back to where the iteration started
EmptyFilenameRewind ==
    /\ pc = "body"
    /\ iter.kind = "empty"
    /\ pos' = iter.from
    /\ pc' = "loop"
    /\ UNCHANGED <<lines, term, source, code, pragma_pos, include_pos, loads, iter,
                   devVars, ioVars>>

\* if (num_characters == 0) continue
EmptyFilename ==
    /\ pc = "body"
    /\ iter.kind = "empty"
    /\ pc' = "loop"
    /\ UNCHANGED <<lines, term, source, code, pos, pragma_pos, include_pos, loads,
                   iter, devVars, ioVars>>

\* the directive is erased and what read_cast returned is inserted in its place
\* a splice that leaves the cursor at the start of what it inserted
SpliceRescan(included) ==
    /\ pc = "body"
    /\ iter.kind = "resolve"
    /\ code' = Insert(ErasedLine(code, iter.start_of_pragma_line, iter.end_of_line),
                      iter.start_of_pragma_line, Spliced(iter.filename, included))
    /\ pos' = iter.start_of_pragma_line
    /\ loads' = Append(loads, [filename |-> iter.filename, found |-> included.found,
                               source |-> included.source])
    /\ pc' = "loop"
    /\ UNCHANGED <<lines, term, source, pragma_pos, include_pos, iter, devVars, ioVars>>

\* the directive has a filename: erase it, call read_cast, insert, move the cursor
Splice(included) ==
    /\ pc = "body"
    /\ iter.kind = "resolve"
    /\ code' = Insert(ErasedLine(code, iter.start_of_pragma_line, iter.end_of_line),
                      iter.start_of_pragma_line, Spliced(iter.filename, included))
    /\ pos' = iter.start_of_pragma_line + Len(Spliced(iter.filename, included))
    /\ loads' = Append(loads, [filename |-> iter.filename, found |-> included.found,
                               source |-> included.source])
    /\ pc' = "loop"
    /\ UNCHANGED <<lines, term, source, pragma_pos, include_pos, iter, devVars, ioVars>>

\* read_cast returned the file
IncludeLoaded == \E included \in ReadCast(iter.filename) : included.found /\ Splice(included)

\* read_cast returned a null pointer
IncludeFailed == \E included \in ReadCast(iter.filename) : ~included.found /\ Splice(included)

-----------------------------------------------------------------------------
(* ShaderModule::compile and ShaderModule::Implementation::Implementation. *)

Devices == 0 .. MaxDevice
Threads == 1 .. MaxThreads
\* a thread outside compile
Idle == [pc |-> "idle", device |-> 0, made |-> 0]
NullPtr == [null |-> TRUE, device |-> 0, shaderModule |-> 0]
VkResults == {"VK_SUCCESS", "VK_ERROR_OUT_OF_HOST_MEMORY", "VK_ERROR_INVALID_SHADER_NV"}

DevInit ==
    /\ _implementation = [d \in Devices |-> NullPtr]
    /\ created = [d \in Devices |-> 0]
    /\ handles = 0
    /\ calls = <<>>
    /\ threads = [t \in Threads |-> Idle]

\* a finished compile call: its device, how it ended ("noop": nothing to do,
\* "created": the Implementation is stored, "threw": vsg::Exception with
\* the VkResult left the call) and _implementation as the call left it
Call(d, kind, result, slots) ==
    [device |-> d, kind |-> kind, result |-> result, after |-> slots]

\* (mutant) the test of the slot is missing
NeedsCreateAlways(impl, d) == TRUE

\* if (!_implementation[context.deviceID])
NeedsCreate(impl, d) == impl[d].null

\* the call finds an Implementation for the device: nothing is done
CompileNoop(d) ==
    /\ Len(calls) < MaxCompiles
    /\ ~NeedsCreate(_implementation, d)
    /\ calls' = Append(calls, Call(d, "noop", "VK_SUCCESS", _implementation))
    /\ UNCHANGED <<_implementation, created, handles, threads, incVars, ioVars>>

\* Implementation::create succeeds and its result is stored in the slot
CompileCreate(d) ==
    /\ Len(calls) < MaxCompiles
    /\ NeedsCreate(_implementation, d)
    /\ created' = [created EXCEPT ![d] = @ + 1]
    /\ handles' = handles + 1
    /\ _implementation' = [_implementation EXCEPT
                             ![d] = [null |-> FALSE, device |-> d, shaderModule |-> handles + 1]]
    /\ calls' = Append(calls, Call(d, "created", "VK_SUCCESS", _implementation'))
    /\ UNCHANGED <<threads, incVars, ioVars>>

\* (mutant) the slot is assigned before the failure is thrown
CompileThrowStoring(d, result) ==
    /\ Len(calls) < MaxCompiles
    /\ NeedsCreate(_implementation, d)
    /\ result # "VK_SUCCESS"
    /\ created' = [created EXCEPT ![d] = @ + 1]
    /\ _implementation' = [_implementation EXCEPT
                             ![d] = [null |-> FALSE, device |-> d, shaderModule |-> 0]]
    /\ calls' = Append(calls, Call(d, "threw", result, _implementation'))
    /\ UNCHANGED <<handles, threads, incVars, ioVars>>

\* vkCreateShaderModule fails: the constructor throws, the assignment to
\* the slot is never reached and the exception leaves compile
CompileThrow(d, result) ==
    /\ Len(calls) < MaxCompiles
    /\ NeedsCreate(_implementation, d)
    /\ result # "VK_SUCCESS"
    /\ created' = [created EXCEPT ![d] = @ + 1]
    /\ calls' = Append(calls, Call(d, "threw", result, _implementation))
    /\ UNCHANGED <<_implementation, handles, threads, incVars, ioVars>>

-----------------------------------------------------------------------------
(* ShaderModule::compile called from several threads.  The function takes  *)
(* no lock: the test of the slot, vkCreateShaderModule and the assignment  *)
(* to the slot are steps other threads' steps come between.  (Two threads  *)
(* that assign the same ref_ptr race; of what the build may then do, the   *)
(* model has the two orders of the assignments.)                           *)

InCompile == {t \in Threads : threads[t].pc # "idle"}

\* compile(context) is entered with context.deviceID = d
ThreadCall(t, d) ==
    /\ threads[t].pc = "idle"
    /\ Len(calls) + Cardinality(InCompile) < MaxCompiles
    /\ threads' = [threads EXCEPT ![t] = [pc |-> "test", device |-> d, made |-> 0]]
    /\ UNCHANGED <<_implementation, created, handles, calls, incVars, ioVars>>

\* if (!_implementation[context.deviceID]) finds the slot set: return
ThreadFindsSlotSet(t) ==
    /\ threads[t].pc = "test"
    /\ ~NeedsCreate(_implementation, threads[t].device)
    /\ calls' = Append(calls, Call(threads[t].device, "noop", "VK_SUCCESS", _implementation))
    /\ threads' = [threads EXCEPT ![t] = Idle]
    /\ UNCHANGED <<_implementation, created, handles, incVars, ioVars>>

\* if (!_implementation[context.deviceID]) finds the slot empty
ThreadFindsSlotEmpty(t) ==
    /\ threads[t].pc = "test"
    /\ NeedsCreate(_implementation, threads[t].device)
    /\ threads' = [threads EXCEPT ![t].pc = "create"]
    /\ UNCHANGED <<_implementation, created, handles, calls, incVars, ioVars>>

\* Implementation::create: vkCreateShaderModule succeeds
ThreadCreates(t) ==
    /\ threads[t].pc = "create"
    /\ created' = [created EXCEPT ![threads[t].device] = @ + 1]
    /\ handles' = handles + 1
    /\ threads' = [threads EXCEPT ![t].pc = "assign", ![t].made = handles + 1]
    /\ UNCHANGED <<_implementation, calls, incVars, ioVars>>

\* Implementation::create: vkCreateShaderModule fails, the exception leaves compile
ThreadThrows(t, result) ==
    /\ threads[t].pc = "create"
    /\ result # "VK_SUCCESS"
    /\ created' = [created EXCEPT ![threads[t].device] = @ + 1]
    /\ calls' = Append(calls, Call(threads[t].device, "threw", result, _implementation))
    /\ threads' = [threads EXCEPT ![t] = Idle]
    /\ UNCHANGED <<_implementation, handles, incVars, ioVars>>

\* _implementation[context.deviceID] = the created Implementation; return
ThreadAssigns(t) ==
    /\ threads[t].pc = "assign"
    /\ _implementation' = [_implementation EXCEPT
                             ![threads[t].device] =
                                 [null |-> FALSE, device |-> threads[t].device,
                                  shaderModule |-> threads[t].made]]
    /\ calls' = Append(calls, Call(threads[t].device, "created", "VK_SUCCESS", _implementation'))
    /\ threads' = [threads EXCEPT ![t] = Idle]
    /\ UNCHANGED <<created, handles, incVars, ioVars>>

-----------------------------------------------------------------------------
(* ShaderCompileSettings::read/write and ShaderModule::read/write.  The    *)
(* Output is the sequence of the properties written, each with its name;   *)
(* the Input hands them back in that order, and a read of another name     *)
(* than the next property's fails and leaves the value as it was.          *)

Property(name, value) == [name |-> name, value |-> value]

Versions == {<<0, 1, 2>>, <<0, 1, 3>>, <<0, 1, 4>>, <<0, 2, 0>>, <<1, 0, 0>>}

\* Input/Output::version_greater_equal(major, minor, patch)
version_greater_equal(v, major, minor, patch) ==
    \/ v[1] > major
    \/ v[1] = major /\ v[2] > minor
    \/ v[1] = major /\ v[2] = minor /\ v[3] >= patch

\* enum ShaderCompileSettings::Language, written as int
Languages == <<"GLSL", "HLSL">>
LanguageToInt(language) == CHOOSE i \in 0 .. Len(Languages) - 1 : Languages[i + 1] = language
IntToLanguage(i) == Languages[i + 1]

\* all sequences over S of length up to n
RECURSIVE SeqsUpTo(_, _)
SeqsUpTo(S, n) ==
    IF n = 0 THEN {<<>>}
    ELSE LET shorter == SeqsUpTo(S, n - 1)
         IN shorter \cup {Append(q, x) : q \in {r \in shorter : Len(r) = n - 1}, x \in S}

\* the ShaderCompileSettings objects of the model
Settings ==
    [null : {FALSE},
     vulkanVersion : {4194304},
     clientInputVersion : {100},
     language : {"GLSL", "HLSL"},
     defaultVersion : {450},
     target : {3},
     forwardCompatible : {FALSE, TRUE},
     defines : SeqsUpTo({"A", "B"}, MaxDefines)]
\* a ShaderCompileSettings before anything was read into it
MadeSettings ==
    {[null |-> FALSE, vulkanVersion |-> 4198400, clientInputVersion |-> 110,
      language |-> "GLSL", defaultVersion |-> 460, target |-> 1,
      forwardCompatible |-> FALSE, defines |-> d] : d \in {<<>>, <<"OLD">>}}
\* ref_ptr<ShaderCompileSettings>() : no hints
NoHints == [null |-> TRUE]

\* the ShaderModule objects of the model
Modules ==
    [source : {"", "void main(){}"},
     hints : {NoHints} \cup Settings,
     code : SeqsUpTo({7, 9}, MaxCode)]
\* the ShaderModule objects that read
Readers ==
    {[source |-> "", hints |-> NoHints, code |-> <<>>]}
    \cup {[source |-> "old", hints |-> h, code |-> <<5>>] : h \in MadeSettings}

\* Output::write(name, value), writeValue<T>(name, value)
Write(out, name, value) == Append(out, Property(name, value))

\* ShaderCompileSettings::write
ShaderCompileSettings_write(out, settings, v) ==
    LET o1 == Write(out, "vulkanVersion", settings.vulkanVersion)
        o2 == Write(o1, "clientInputVersion", settings.clientInputVersion)
        o3 == Write(o2, "language", LanguageToInt(settings.language))
        o4 == Write(o3, "defaultVersion", settings.defaultVersion)
        o5 == Write(o4, "target", settings.target)
        o6 == Write(o5, "forwardCompatible", settings.forwardCompatible)
    IN  IF version_greater_equal(v, 0, 1, 4)
        THEN Write(o6, "defines", settings.defines)
        ELSE o6

\* Output::writeObject(name, object): nothing but the name for no object,
\* else the class and what the object's write writes
WriteObject(out, name, settings, v) ==
    IF settings.null THEN Write(out, name, "nullptr")
    ELSE ShaderCompileSettings_write(Write(out, name, "vsg::ShaderCompileSettings"), settings, v)

\* Output::write(count, data): count values, with no length of their own
RECURSIVE WriteArray(_, _, _)
WriteArray(out, count, data) ==
    IF count = 0 THEN out
    ELSE WriteArray(Append(out, Property("", Head(data))), count - 1, Tail(data))

\* a write that puts the words' property before their count
ShaderModule_writeSizeLast(out, module, v) ==
    LET o1 == Write(out, "Object", "")
        o2 == Write(o1, "Source", module.source)
        o3 == IF version_greater_equal(v, 0, 1, 3)
              THEN WriteObject(o2, "hints", module.hints, v)
              ELSE o2
        o4 == Write(o3, "SPIRV", "")
        o5 == Write(o4, "SPIRVSize", Len(module.code))
    IN  WriteArray(o5, Len(module.code), module.code)

\* ShaderModule::write
ShaderModule_write(out, module, v) ==
    LET o1 == Write(out, "Object", "")
        o2 == Write(o1, "Source", module.source)
        o3 == IF version_greater_equal(v, 0, 1, 3)
              THEN WriteObject(o2, "hints", module.hints, v)
              ELSE o2
        o4 == Write(o3, "SPIRVSize", Len(module.code))
        o5 == Write(o4, "SPIRV", "")
    IN  WriteArray(o5, Len(module.code), module.code)

\* the next property of the Input has this name
Matches(in, name) ==
    in.ok /\ Len(in.tokens) > 0 /\ Head(in.tokens).name = name
\* Input::read(name, value), readValue<T>(name): the value read
ReadValue(in, name, old) ==
    IF Matches(in, name) THEN Head(in.tokens).value ELSE old
\* the Input after Input::read(name, value), Input::matchPropertyName(name)
ReadNext(in, name) ==
    IF Matches(in, name)
    THEN [tokens |-> Tail(in.tokens), ok |-> TRUE]
    ELSE [tokens |-> in.tokens, ok |-> FALSE]

\* a read that expects defines from 0.1.3 on
ShaderCompileSettings_readEarlyDefines(in, settings, v) ==
    LET i1 == ReadNext(in, "vulkanVersion")
        i2 == ReadNext(i1, "clientInputVersion")
        i3 == ReadNext(i2, "language")
        i4 == ReadNext(i3, "defaultVersion")
        i5 == ReadNext(i4, "target")
        i6 == ReadNext(i5, "forwardCompatible")
        gated == version_greater_equal(v, 0, 1, 3)
    IN  [input |-> IF gated THEN ReadNext(i6, "defines") ELSE i6,
         object |-> [settings EXCEPT !.defines =
                        IF gated THEN ReadValue(i6, "defines", settings.defines)
                        ELSE settings.defines]]

\* ShaderCompileSettings::read: the settings after it, and the Input after it
ShaderCompileSettings_read(in, settings, v) ==
    LET i1 == ReadNext(in, "vulkanVersion")
        i2 == ReadNext(i1, "clientInputVersion")
        i3 == ReadNext(i2, "language")
        i4 == ReadNext(i3, "defaultVersion")
        i5 == ReadNext(i4, "target")
        i6 == ReadNext(i5, "forwardCompatible")
        gated == version_greater_equal(v, 0, 1, 4)
    IN  [input |-> IF gated THEN ReadNext(i6, "defines") ELSE i6,
         object |->
            [null |-> FALSE,
             vulkanVersion |-> ReadValue(in, "vulkanVersion", settings.vulkanVersion),
             clientInputVersion |->
                 ReadValue(i1, "clientInputVersion", settings.clientInputVersion),
             language |->
                 IntToLanguage(ReadValue(i2, "language", LanguageToInt(settings.language))),
             defaultVersion |-> ReadValue(i3, "defaultVersion", settings.defaultVersion),
             target |-> ReadValue(i4, "target", settings.target),
             forwardCompatible |->
                 ReadValue(i5, "forwardCompatible", settings.forwardCompatible),
             defines |-> IF gated THEN ReadValue(i6, "defines", settings.defines)
                         ELSE settings.defines]]

\* Input::readObject(name, object): no object, or a created object that read
ReadObject(in, name, old, created_object, v) ==
    IF ~Matches(in, name) THEN [input |-> ReadNext(in, name), object |-> old]
    ELSE IF Head(in.tokens).value = "nullptr"
         THEN [input |-> ReadNext(in, name), object |-> NoHints]
         ELSE ShaderCompileSettings_read(ReadNext(in, name), created_object, v)

\* std::vector::resize(count)
Resize(data, count) ==
    [i \in 1 .. count |-> IF i <= Len(data) THEN data[i] ELSE 0]

\* Input::read(count, data): the next count values go to data[0 .. count-1]
RECURSIVE ReadArray(_, _, _, _)
ReadArray(in, count, data, i) ==
    IF i > count THEN [input |-> in, object |-> data]
    ELSE IF Matches(in, "")
         THEN ReadArray(ReadNext(in, ""), count, [data EXCEPT ![i] = Head(in.tokens).value], i + 1)
         ELSE [input |-> ReadNext(in, ""), object |-> data]

\* ShaderModule::read: the module after it, and the Input after it
ShaderModule_read(in, module, created_object, v) ==
    LET i1 == ReadNext(in, "Object")
        i2 == ReadNext(i1, "Source")
        h  == IF version_greater_equal(v, 0, 1, 3)
              THEN ReadObject(i2, "hints", module.hints, created_object, v)
              ELSE [input |-> i2, object |-> module.hints]
        size == ReadValue(h.input, "SPIRVSize", 0)
        i3 == ReadNext(h.input, "SPIRVSize")
        i4 == ReadNext(i3, "SPIRV")
        c  == ReadArray(i4, size, Resize(module.code, size), 1)
    IN  [input |-> c.input,
         object |-> [source |-> ReadValue(i1, "Source", module.source),
                     hints |-> h.object,
                     code |-> c.object]]

\* no write and no read is going on
IoInit(v, m, r, s) ==
    /\ version = v
    /\ saved = m
    /\ prior = r
    /\ made = s
    /\ object = r
    /\ output = <<>>
    /\ input = [tokens |-> <<>>, ok |-> TRUE]
    /\ ioPc = "start"

\* saved.write(output)
ModuleWrite ==
    /\ ioPc = "start"
    /\ output' = ShaderModule_write(output, saved, version)
    /\ input' = [tokens |-> output', ok |-> TRUE]
    /\ ioPc' = "written"
    /\ UNCHANGED <<version, saved, made, prior, object, incVars, devVars>>

\* object.read(input), the Input holding what was written
ModuleRead ==
    /\ ioPc = "written"
    /\ LET r == ShaderModule_read(input, object, made, version)
       IN  /\ object' = r.object
           /\ input' = r.input
    /\ ioPc' = "read"
    /\ UNCHANGED <<version, saved, made, prior, output, incVars, devVars>>

-----------------------------------------------------------------------------
(* The specifications.                                                     *)

\* insertIncludes on every source of the bounds
\* neither write nor read is modelled in a run of insertIncludes or compile
IoNone == IoInit(<<1, 0, 0>>, [source |-> "", hints |-> NoHints, code |-> <<>>],
                 [source |-> "", hints |-> NoHints, code |-> <<>>], NoHints)

Init == (\E ls \in Sources, t \in Terminators : IncInit(ls, t)) /\ DevInit /\ IoNone

Next ==
    \/ ScanDirective
    \/ LoopExit
    \/ BreakAtPragma
    \/ SkipPragma
    \/ BreakAtFilename
    \/ EmptyFilename
    \/ IncludeLoaded
    \/ IncludeFailed

Spec == Init /\ [][Next]_vars

\* compile calls on one ShaderModule, one after the other
InitCompile == IncInit(<<Blank>>, "\n") /\ DevInit /\ IoNone

\* a ShaderModule is written, and what was written is read by another
InitIO ==
    /\ IncInit(<<Blank>>, "\n")
    /\ DevInit
    /\ \E v \in Versions, m \in Modules, r \in Readers, s \in MadeSettings :
           IoInit(v, m, r, s)
NextIO == ModuleWrite \/ ModuleRead
SpecIO == InitIO /\ [][NextIO]_vars

NextCompile ==
    \/ \E d \in Devices : CompileNoop(d)
    \/ \E d \in Devices : CompileCreate(d)
    \/ \E d \in Devices, result \in VkResults : CompileThrow(d, result)

SpecCompile == InitCompile /\ [][NextCompile]_vars

\* compile calls on one ShaderModule from MaxThreads threads
NextThreads ==
    \/ \E t \in Threads, d \in Devices : ThreadCall(t, d)
    \/ \E t \in Threads : ThreadFindsSlotSet(t)
    \/ \E t \in Threads : ThreadFindsSlotEmpty(t)
    \/ \E t \in Threads : ThreadCreates(t)
    \/ \E t \in Threads, result \in VkResults : ThreadThrows(t, result)
    \/ \E t \in Threads : ThreadAssigns(t)

SpecThreads == InitCompile /\ [][NextThreads]_vars

-----------------------------------------------------------------------------
(* What the properties are stated with: text predicates that do not use    *)
(* the operators of the model of std::string, and the lines of the source. *)

\* t occurs in s at the 0-based position i
Occurs(s, t, i) == i + Len(t) <= Len(s) /\ SubSeq(s, i + 1, i + Len(t)) = t
Places(s, t) == {i \in 0 .. (Len(s) - Len(t)) : Occurs(s, t, i)}
Contains(s, t) == \E i \in 0 .. (Len(s) - Len(t)) : Occurs(s, t, i)
Count(s, t) == Cardinality(Places(s, t))
\* s from the position p on
From(s, p) == SubSeq(s, p + 1, Len(s))

\* t is a whole line of s
IsLineOf(s, t) ==
    \E i \in Places(s, t) :
        /\ i = 0 \/ SubSeq(s, i, i) \in {"\n", "\r"}
        /\ i + Len(t) = Len(s) \/ SubSeq(s, i + Len(t) + 1, i + Len(t) + 1) \in {"\n", "\r"}

\* the source has an #include token, or a #pragma followed, after blanks, by include
HasDirective(s) ==
    \/ Contains(s, "#include")
    \/ \E i \in Places(s, "#pragma") : \E k \in (i + 7) .. Len(s) :
          /\ \A j \in (i + 7) .. (k - 1) : SubSeq(s, j + 1, j + 1) \in {" ", "\t"}
          /\ Occurs(s, "include", k)

LineNumbers == 1 .. Len(lines)
\* the text of a line from its directive token on
DirectiveText(l) == l.token \o l.ws1 \o l.arg \o l.ws2
\* the source from line i on, and after line i
SourceFrom(i) == Join(SubSeq(lines, i, Len(lines)), term)
SourceAfter(i) == IF i = Len(lines) THEN "" ELSE term \o SourceFrom(i + 1)

\* the lines with an include directive that names a file, and the lines
\* with a #pragma that is not #pragma include
Directives == {IncludeQuotedA, IncludeBareB, IncludeSpacedB, PragmaBareB, PragmaQuotedB,
               IncludeOpenA, IncludeLoneQuote}
WellFormedB == {IncludeBareB, IncludeSpacedB, PragmaBareB, PragmaQuotedB}
OtherPragmas == {PragmaOther, PragmaAlone}
EmptyDirectives == {IncludeEmpty, PragmaEmpty}

StartLine(name) == startOfIncludeMarker \o name \o endOfLine
EndLine(name) == endOfIncludeMarker \o name \o endOfLine
FailedLine(name) == failedLoadMarker \o name \o endOfLine

\* the loader calls so far for a file
LoadsOf(name) == {k \in 1 .. Len(loads) : loads[k].filename = name}

-----------------------------------------------------------------------------
(* The claims.                                                             *)

\* C1 (as claimed): when insertIncludes returns for a source with a line
\* #include "a.glsl", with a loader that returns F for a.glsl (and no other
\* file is asked for), the output contains the start marker line of a.glsl,
\* F and the end marker line of a.glsl in this order, and no longer the
\* line #include "a.glsl".
C1_IncludeSpliced ==
    ( /\ pc = "done"
      /\ \E i \in LineNumbers : lines[i] = IncludeQuotedA
      /\ \A k \in 1 .. Len(loads) : loads[k].filename = "a.glsl" /\ loads[k].found )
    => /\ Contains(code, StartLine("a.glsl") \o FileText("a.glsl") \o EndLine("a.glsl"))
       /\ ~Contains(code, Render(IncludeQuotedA))

\* C2: a source with no #include and no #pragma include directive is never
\* changed and never causes a loader call.
C2_NoDirectiveUnchanged ==
    (code = source /\ loads = <<>>) \/ HasDirective(source)

C2_Witness ==
    /\ pc = "done"
    /\ ~HasDirective(source)
    /\ \E i \in LineNumbers : lines[i] = PragmaOther
    /\ iter.pragma_pos = npos
    /\ code = source

\* C3: for a source whose only directive naming b.glsl is the unquoted line
\* #pragma include b.glsl, with a loader that does not find b.glsl: right
\* after the directive is resolved the failure marker line of b.glsl stands
\* just before the cursor and the text from the cursor on is the source
\* after the directive; the output contains exactly one failure marker line
\* of b.glsl and no start marker and no end marker of b.glsl.
C3_FailedPragmaMarker ==
    \A i \in LineNumbers :
        ( /\ lines[i] = PragmaBareB
          /\ \A j \in LineNumbers \ {i} : lines[j] \notin WellFormedB
          /\ \A k \in LoadsOf("b.glsl") : ~loads[k].found )
        => /\ ( pc = "loop" /\ iter.kind = "resolve" /\ iter.pragma /\ iter.filename = "b.glsl" )
              => /\ pos >= Len(FailedLine("b.glsl"))
                 /\ Occurs(code, FailedLine("b.glsl"), pos - Len(FailedLine("b.glsl")))
                 /\ pos - Len(FailedLine("b.glsl")) = iter.start_of_pragma_line
                 /\ From(code, pos) = SourceAfter(i)
           /\ pc = "done"
              => /\ Count(code, FailedLine("b.glsl")) = 1
                 /\ Cardinality(LoadsOf("b.glsl")) = 1
                 /\ ~Contains(code, startOfIncludeMarker \o "b.glsl")
                 /\ ~Contains(code, endOfIncludeMarker \o "b.glsl")

C3_Witness ==
    /\ pc = "done"
    /\ lines = <<Statement, PragmaBareB, IncludeQuotedA>>
    /\ Len(loads) = 2
    /\ ~loads[1].found
    /\ loads[2].found

\* C4: a #pragma line that is not #pragma include is left as it is: when
\* the scan has skipped it, the buffer from the #pragma on is still the
\* source from that line on and the cursor is at the end of that line; in
\* the output the line is a whole line, and there are no more loader calls
\* than directives that name a file.
C4_OtherPragmaKept ==
    /\ ( pc = "loop" /\ iter.kind = "skip" )
       => \E i \in LineNumbers :
             /\ lines[i] \in OtherPragmas
             /\ From(code, iter.start_of_pragma_line) = SourceFrom(i)
             /\ pos = iter.end_of_line
             /\ pos = IF i = Len(lines) THEN npos
                      ELSE iter.start_of_pragma_line + Len(Render(lines[i]))
    /\ pc = "done"
       => /\ \A i \in LineNumbers :
                lines[i] \in OtherPragmas => IsLineOf(code, Render(lines[i]))
          /\ Len(loads) <= Cardinality({i \in LineNumbers : lines[i] \in Directives})

C4_Witness ==
    /\ pc = "done"
    /\ lines = <<PragmaOther, PragmaAlone, IncludeQuotedA>>
    /\ term = "\r\n"
    /\ Len(loads) = 1
    /\ IsLineOf(code, "#pragma foo")
    /\ IsLineOf(code, "#pragma ")

\* C5 (as claimed): when insertIncludes returns, the loader was called once
\* for every directive of the source that names a file, in source order.
C5_OneLoadPerDirective ==
    pc = "done"
    => LET named == {i \in LineNumbers : lines[i] \in Directives}
       IN  /\ Len(loads) = Cardinality(named)
           /\ \A k \in 1 .. Len(loads) : \A i \in named :
                 ( Cardinality({j \in named : j <= i}) = k
                   /\ lines[i] \in WellFormedB \cup {IncludeQuotedA} )
                 => loads[k].filename = (IF lines[i] = IncludeQuotedA THEN "a.glsl" ELSE "b.glsl")

\* the text of the directive being scanned, from its token to the line end
ScannedText ==
    SubSeq(code, iter.start_of_pragma_line + 1,
           IF iter.end_of_line = npos THEN Len(code) ELSE iter.end_of_line)
ScannedDirective == pc = "body" /\ iter.kind \notin {"none", "exit"}

\* C6 (as claimed): the directive #include "a.glsl, with no closing quote,
\* gets the loader key a.glsl minus its last character.
C6_OpenQuoteDropsLastCharacter ==
    ( ScannedDirective /\ ScannedText = DirectiveText(IncludeOpenA) )
    => iter.filename = "a.gls"

\* C6 (amended): the directive #include "a.glsl, with no closing quote,
\* gets the loader key a.glsl, all the text after the opening quote: the
\* key starts one past the quote and is one character shorter than the
\* quoted span, so only the quote is dropped.
C6_OpenQuoteKeepsName ==
    /\ ( ScannedDirective /\ ScannedText = DirectiveText(IncludeOpenA) )
       => /\ iter.kind = "resolve"
          /\ iter.filename = "a.glsl"
          /\ SubSeq(code, iter.pos, iter.pos) = Quote
          /\ Len(iter.filename) = Len(Quote \o "a.glsl") - 1
    /\ ( \A i \in LineNumbers : lines[i] = IncludeOpenA )
       => \A k \in 1 .. Len(loads) : loads[k].filename = "a.glsl"

C6_Witness ==
    /\ pc = "done"
    /\ lines = <<IncludeOpenA, IncludeOpenA>>
    /\ Len(loads) = 2
    /\ loads[2].filename = "a.glsl"

\* C7: a scanned directive that names b.glsl, quoted or not, as #include or
\* as #pragma include, with or without blanks around the filename, gets the
\* loader key b.glsl; so does the quoted #include "a.glsl" get a.glsl.
C7_QuotedAndBareSameKey ==
    /\ ScannedDirective
       => /\ \A l \in WellFormedB :
                ScannedText = DirectiveText(l)
                => iter.kind = "resolve" /\ iter.filename = "b.glsl"
          /\ ScannedText = DirectiveText(IncludeQuotedA)
             => iter.kind = "resolve" /\ iter.filename = "a.glsl"
    /\ ( \A i \in LineNumbers : lines[i] \in WellFormedB )
       => \A k \in 1 .. Len(loads) : loads[k].filename = "b.glsl"

C7_Witness ==
    /\ pc = "done"
    /\ lines = <<PragmaQuotedB, IncludeBareB, IncludeSpacedB>>
    /\ Len(loads) = 3
    /\ \A k \in 1 .. 3 : loads[k].filename = "b.glsl"

\* C8 (as claimed): when insertIncludes returns for a source with a line
\* that is a directive followed only by blanks, that line is a line of the
\* output, no loader call was made for it, and every directive naming a
\* file on a later line was resolved.
C8_EmptyDirectiveSkipped ==
    pc = "done"
    => \A i \in LineNumbers :
          ( /\ lines[i] \in EmptyDirectives
            /\ \A j \in LineNumbers \ {i} : lines[j] \in {IncludeQuotedA, PragmaOther, Blank} )
          => /\ IsLineOf(code, Render(lines[i]))
             /\ \A k \in 1 .. Len(loads) : loads[k].filename = "a.glsl"
             /\ Len(loads) >= Cardinality({j \in LineNumbers : j > i /\ lines[j] = IncludeQuotedA})

\* the compile calls so far for a device, and those that called
\* vkCreateShaderModule
CallsOf(d) == {k \in 1 .. Len(calls) : calls[k].device = d}
CreationsOf(d) == {k \in CallsOf(d) : calls[k].kind # "noop"}
NoCreationFailed == \A k \in 1 .. Len(calls) : calls[k].kind # "threw"
\* _implementation as call k found it
SlotsBefore(k) == IF k = 1 THEN [d \in Devices |-> NullPtr] ELSE calls[k - 1].after

\* C9: as long as no creation failed, vkCreateShaderModule was called once
\* for every device compile was called for and never for another device;
\* the slot of a device holds what its first compile call stored, a handle
\* of its own, and every later call for the device was a no-op.
C9_OneCreationPerDevice ==
    NoCreationFailed
    => \A d \in Devices :
          /\ created[d] = (IF CallsOf(d) = {} THEN 0 ELSE 1)
          /\ _implementation[d].null = (CallsOf(d) = {})
          /\ \A k \in CallsOf(d) :
                /\ calls[k].kind = (IF \E j \in CallsOf(d) : j < k THEN "noop" ELSE "created")
                /\ _implementation[d] = calls[k].after[d]
                /\ calls[k].after[d].device = d
          /\ \A e \in Devices \ {d} :
                ( ~_implementation[d].null /\ ~_implementation[e].null )
                => _implementation[d].shaderModule # _implementation[e].shaderModule

C9_Witness ==
    /\ Len(calls) = 3
    /\ calls[1].device = 0 /\ calls[1].kind = "created"
    /\ calls[2].device = 0 /\ calls[2].kind = "noop"
    /\ calls[3].device = 1 /\ calls[3].kind = "created"
    /\ created = [d \in Devices |-> IF d \in {0, 1} THEN 1 ELSE 0]

\* C10: a compile call in which vkCreateShaderModule fails ends with the
\* exception that carries the VkResult, after one call of
\* vkCreateShaderModule; it leaves every slot as it found it, the slot of
\* its device empty; and the next compile call for the device calls
\* vkCreateShaderModule again.
C10_FailedCreationLeavesSlotAbsent ==
    /\ \A k \in 1 .. Len(calls) :
          calls[k].kind = "threw"
          => /\ calls[k].result # "VK_SUCCESS"
             /\ calls[k].after = SlotsBefore(k)
             /\ calls[k].after[calls[k].device].null
             /\ \A m \in CallsOf(calls[k].device) :
                   ( m > k /\ \A j \in CallsOf(calls[k].device) : ~(k < j /\ j < m) )
                   => calls[m].kind # "noop"
    /\ \A d \in Devices : created[d] = Cardinality(CreationsOf(d))

C10_Witness ==
    /\ Len(calls) = 3
    /\ calls[1].device = 1 /\ calls[1].kind = "created"
    /\ calls[2].device = 0 /\ calls[2].kind = "threw"
    /\ calls[3].device = 0 /\ calls[3].kind = "created"
    /\ created[0] = 2
    /\ _implementation[1] = calls[1].after[1]

\* C11 (as claimed): when several threads call compile on one module, no
\* device gets more than one Implementation created and stored, and a slot
\* that holds an Implementation is never assigned again.
C11_AtMostOneCreationPerDevice ==
    \A d \in Devices :
        /\ Cardinality({k \in CallsOf(d) : calls[k].kind = "created"}) <= 1
        /\ \A k \in CallsOf(d) : calls[k].kind = "created" => SlotsBefore(k)[d].null

\* the names of the properties written
Names == {output[k].name : k \in 1 .. Len(output)}
\* read took all that write wrote, and every property it asked for was the next one
ReadAllWritten == input.ok /\ input.tokens = <<>>

\* C12: a module whose hints are set, written under a version of 0.1.4 or
\* later and read back, gives equal source, code and hints, defines
\* included, whatever the reading object held before; SPIRVSize holds the
\* number of words, it is followed by the SPIRV property and exactly that
\* many words, and read takes the properties in the order write wrote them.
C12_RoundTrip ==
    (ioPc = "read" /\ version_greater_equal(version, 0, 1, 4) /\ ~saved.hints.null) =>
        /\ object.source = saved.source
        /\ object.code = saved.code
        /\ object.hints = saved.hints
        /\ ReadAllWritten
        /\ \E k \in 1 .. Len(output) :
              /\ output[k].name = "SPIRVSize"
              /\ output[k].value = Len(saved.code)
              /\ output[k + 1].name = "SPIRV"
              /\ Len(output) = k + 1 + Len(saved.code)

C12_Witness ==
    /\ ioPc = "read"
    /\ version = <<0, 1, 4>>
    /\ saved.source = "void main(){}"
    /\ saved.code = <<7, 9>>
    /\ ~saved.hints.null
    /\ saved.hints.language = "HLSL"
    /\ saved.hints.defines = <<"A", "B">>
    /\ prior.source = "old"
    /\ made.defines = <<"OLD">>
    /\ object = saved

\* C13: write emits hints exactly under a version of 0.1.3 or later and
\* defines exactly under 0.1.4 or later, and read takes exactly what was
\* emitted: under a lower version the reading object's hints, or the
\* defines of the settings object that reads, stay what they were.
C13_SymmetricGating ==
    /\ ioPc # "start" =>
          /\ ("hints" \in Names) = version_greater_equal(version, 0, 1, 3)
          /\ ("defines" \in Names) =
                (version_greater_equal(version, 0, 1, 4) /\ ~saved.hints.null)
    /\ ioPc = "read" =>
          /\ ReadAllWritten
          /\ ~version_greater_equal(version, 0, 1, 3) => object.hints = prior.hints
          /\ (version = <<0, 1, 3>> /\ ~saved.hints.null) =>
                 object.hints = [saved.hints EXCEPT !.defines = made.defines]

C13_Witness ==
    /\ ioPc = "read"
    /\ version = <<0, 1, 3>>
    /\ ~saved.hints.null
    /\ saved.hints.defines = <<"A">>
    /\ made.defines = <<"OLD">>
    /\ object.hints.defines = <<"OLD">>
    /\ object.hints.language = saved.hints.language
    /\ "defines" \notin Names

\* C14 (as claimed): the occurrence an iteration works on is the first
\* "#pragma" or the first "#include" at or after the cursor, whichever is
\* at the smaller position.
C14_EarliestDirectiveNext ==
    ScannedDirective =>
        LET first_pragma == Find(code, "#pragma", iter.from)
            first_include == Find(code, "#include", iter.from)
        IN  iter.start_of_pragma_line =
                IF first_include < first_pragma THEN first_include ELSE first_pragma

\* the splice was the last step
JustSpliced == pc = "loop" /\ iter.kind = "resolve"
\* the lines of the source that name a.glsl
NamesA == {IncludeQuotedA, IncludeOpenA}

\* C15: right after a splice the inserted text (markers, filename, fragment)
\* lies where the directive started and the cursor is at its end; every
\* directive scanned later starts at or after the cursor; so in the output
\* every inserted text is there verbatim, there are no more loader calls
\* than lines of the source, and a.glsl, which the fragment of b.glsl
\* includes, is loaded only for sources that name it themselves.
C15_InsertedTextNotScanned ==
    /\ JustSpliced =>
          LET inserted == Spliced(iter.filename, loads[Len(loads)])
          IN  /\ Occurs(code, inserted, iter.start_of_pragma_line)
              /\ pos = iter.start_of_pragma_line + Len(inserted)
    /\ ScannedDirective => iter.start_of_pragma_line >= iter.from
    /\ pc = "done" =>
          /\ \A k \in 1 .. Len(loads) : Contains(code, Spliced(loads[k].filename, loads[k]))
          /\ Len(loads) <= Len(lines)
          /\ (\A i \in LineNumbers : lines[i] \notin NamesA) => LoadsOf("a.glsl") = {}

C15_Witness ==
    /\ pc = "done"
    /\ lines = <<IncludeBareB, Statement>>
    /\ Len(loads) = 1
    /\ loads[1].found
    /\ Contains(code, StartLine("b.glsl") \o "#include " \o Quote \o "a.glsl" \o Quote
                      \o "\n" \o EndLine("b.glsl"))
    /\ LoadsOf("a.glsl") = {}

\* the position of the first "\n" or "\r" of s at or after p, Len(s) if none
LineEndFrom(s, p) ==
    LET ends == {i \in p .. (Len(s) - 1) : SubSeq(s, i + 1, i + 1) \in {"\n", "\r"}}
    IN  IF ends = {} THEN Len(s) ELSE CHOOSE i \in ends : \A j \in ends : i <= j

\* C16: a step that resolves a directive replaces the text from the
\* directive token up to, not including, the next line end by the inserted
\* text: what was before the token (earlier text of its line too) stays,
\* the inserted text starts where the token started, and it is followed by
\* what was in the buffer from the line end on, the line end included.
C16_OnlyDirectiveSpanReplaced ==
    [][(pc = "body" /\ iter.kind = "resolve") =>
          LET start == iter.start_of_pragma_line
              inserted == Spliced(iter.filename, loads'[Len(loads')])
          IN  /\ Occurs(code, "#include", start) \/ Occurs(code, "#pragma", start)
              /\ SubSeq(code', 1, start) = SubSeq(code, 1, start)
              /\ Occurs(code', inserted, start)
              /\ From(code', start + Len(inserted)) = From(code, LineEndFrom(code, start))
      ]_vars

C16_Witness ==
    /\ JustSpliced
    /\ lines = <<Statement, IncludeSpacedB, Statement>>
    /\ term = "\r\n"
    /\ Len(loads) = 1
    /\ loads[1].found
    /\ code = Render(Statement) \o "\r\n" \o IncludeSpacedB.pre
              \o Spliced("b.glsl", loads[1]) \o "\r\n" \o Render(Statement)

\* C17 (as claimed): the filename of a directive that is resolved is a part
\* of the buffer that starts at or after the directive token and ends at or
\* before the next line end, so it has no "\n" and no "\r" in it.
C17_FilenameWithinLine ==
    (pc = "body" /\ iter.kind = "resolve") =>
        LET start == iter.start_of_pragma_line
            end == LineEndFrom(code, start)
        IN  /\ ~Contains(iter.filename, "\n")
            /\ ~Contains(iter.filename, "\r")
            /\ \E i \in start .. end :
                  /\ i + Len(iter.filename) <= end
                  /\ Occurs(code, iter.filename, i)

\* the length of the buffer after the cursor
Unscanned == IF pos = npos THEN 0 ELSE Len(code) - pos
\* the "#pragma" and "#include" tokens of the source
Tokens == Count(source, "#pragma") + Count(source, "#include")

\* C18: insertIncludes cannot run forever: every iteration that does not
\* leave the loop ends with less of the buffer after the cursor than it
\* started with, and what is after the cursor is never less than nothing;
\* there are never more loader calls than "#pragma" and "#include" tokens
\* in the source.  (The fragment of b.glsl includes a.glsl, and sources
\* include both.)
C18_Terminates ==
    [][/\ Unscanned' >= 0
       /\ Len(loads') <= Tokens'
       /\ (pc = "body" /\ pc' = "loop") =>
             /\ iter.from <= Len(code)
             /\ Unscanned' < Len(code) - iter.from
      ]_vars

C18_Witness ==
    /\ pc = "done"
    /\ lines = <<PragmaBareB, IncludeEmpty, IncludeQuotedA>>
    /\ Len(loads) = 2
    /\ loads[1].filename = "b.glsl" /\ loads[1].found
    /\ loads[2].filename = "a.glsl"
    /\ Tokens = 3

=============================================================================
